---- MODULE Spec2Model ----
(***************************************************************************)
(* State-machine model of ModelManager (src/Snap/ModelManager): the        *)
(* lifecycle of the native handles, the bitmap staging buffer, the         *)
(* position counter n_past, the antiprompt detector and the generation     *)
(* loop, together with the C wrapper's generate_response.                  *)
(*                                                                         *)
(* A native handle is modelled by whether it is non-null.  The inference   *)
(* backend (llama / mtmd / common) is not part of the repository: every    *)
(* result it reports is a nondeterministic input of the action that calls  *)
(* it.  A backend call that is handed a null handle is undefined           *)
(* behaviour: besides any result it may end the process (pc = "crashed").  *)
(***************************************************************************)
EXTENDS Integers, Sequences, FiniteSets, TLC

\* ------------------------------------------------------------------ bounds
MaxTokens == 3      \* largest max_tokens a caller passes
MaxIngest == 2      \* most positions one initial turn ingests
MaxPast == 4        \* cap of the position counter
MaxStaged == 1      \* most bitmaps staged at once
MaxStop == 2        \* longest stop sequence handed to checkAntiprompt alone

\* ------------------------------------------------- the backend's vocabulary
EogToken == 0
Tokens == 0..3
BitmapIds == {"b1"}
TemplateNames == {"nullptr", "vicuna", "deepseek", "chatml"}
\* max_tokens values a caller passes, negative and zero included
MaxTokensArgs == (-1)..MaxTokens

\* llama_vocab_is_eog(vocab, token_id)
llama_vocab_is_eog(t) == t = EogToken

\* common_token_to_piece(lctx, token_id): token 3 is a token whose text
\* fragment is empty (a partial multi-token character)
common_token_to_piece(t) == IF t = 3 THEN <<>> ELSE <<t>>

\* the image placeholder, and the prompts callers pass, as sequences of
\* pieces of text: one without the placeholder, one with it
ImageMarker == "<__image__>"
Prompts == {<<"Describe this.">>, <<" ", ImageMarker, " ", "Describe this.">>}

\* common_tokenize(lctx, "ASSISTANT:", false, true)
VicunaAntiprompt == <<1, 2>>
\* common_tokenize(lctx, "###", false, true)
DeepseekAntiprompt == <<2>>

VARIABLES
    \* ModelManager's fields
    model, vocab, ctx_vision, lctx, batch, sampler,
    tmpls, antiprompt_tokens, n_past, bitmaps,
    \* the positions the backend holds in the context lctx points to
    committed,
    \* the generateResponse call in progress, and its bookkeeping
    pc, api, max_tokens, i, generated_tokens, callbacks,
    entry_n_past, ingested, decodes, stage,
    \* the tokens handed to common_sampler_accept in this call, and the
    \* msg.content the last evalMessage formatted
    accepted, content,
    \* the last public call entered (why = "running" until it returns), what it
    \* returned and what it released; whether the backend has ever been handed
    \* a null handle or the uninitialized batch
    ret, retval, released, nullCall

sessionVars == <<model, vocab, ctx_vision, lctx, batch, sampler,
                 tmpls, antiprompt_tokens, n_past, bitmaps, committed>>
callVars == <<api, max_tokens, i, generated_tokens, callbacks,
              entry_n_past, ingested, decodes, stage, accepted, content>>
vars == <<sessionVars, callVars, pc, ret, retval, nullCall, released>>

\* ------------------------------------------------------------ return values
Void == [kind |-> "void", ok |-> TRUE, text |-> <<>>]
Bool(b) == [kind |-> "bool", ok |-> b, text |-> <<>>]
Text(s) == [kind |-> "text", ok |-> TRUE, text |-> s]
Nullptr == [kind |-> "nullptr", ok |-> FALSE, text |-> <<>>]

Ret(op, ok, why) == [op |-> op, ok |-> ok, why |-> why]

RECURSIVE Concat(_)
\* result += token, over the callback invocations in order
Concat(ss) == IF ss = <<>> THEN <<>> ELSE Head(ss) \o Concat(Tail(ss))

\* the locals of a generateResponse call, before any call and after any
\* other public call
NoGen ==
    /\ api' = "none" /\ max_tokens' = 0 /\ i' = 0
    /\ generated_tokens' = <<>> /\ callbacks' = <<>> /\ accepted' = <<>>
    /\ entry_n_past' = 0 /\ ingested' = 0 /\ decodes' = 0

NoCall == NoGen /\ stage' = "none" /\ content' = <<>>

Init ==
    /\ model = FALSE /\ vocab = FALSE
    /\ ctx_vision = FALSE /\ lctx = FALSE /\ batch = FALSE /\ sampler = FALSE
    /\ tmpls = FALSE /\ antiprompt_tokens = <<>> /\ n_past = 0 /\ bitmaps = <<>>
    /\ pc = "idle" /\ api = "none" /\ max_tokens = 0 /\ i = 0
    /\ generated_tokens = <<>> /\ callbacks = <<>>
    /\ entry_n_past = 0 /\ ingested = 0 /\ decodes = 0
    /\ stage = "none" /\ accepted = <<>> /\ content = <<>> /\ committed = 0
    /\ ret = Ret("none", TRUE, "none") /\ retval = Void
    /\ nullCall = FALSE /\ released = <<>>

\* The process ends inside a backend call that was handed a null handle.
Crash ==
    /\ pc' = "crashed"
    /\ model' = FALSE /\ vocab' = FALSE
    /\ ctx_vision' = FALSE /\ lctx' = FALSE /\ batch' = FALSE /\ sampler' = FALSE
    /\ tmpls' = FALSE /\ antiprompt_tokens' = <<>> /\ n_past' = 0 /\ bitmaps' = <<>>
    /\ committed' = 0
    /\ NoCall
    /\ ret' = Ret("none", FALSE, "crashed") /\ retval' = Void
    /\ nullCall' = TRUE /\ released' = <<>>

\* What a backend call that reports a status (or a handle, null on failure)
\* may do: succeed or fail; handed a null handle it cannot succeed, and it
\* reports failure or ends the process.
Reports(handleOk) == IF handleOk THEN {"ok", "fail"} ELSE {"fail", "crash"}

\* What a backend call that only yields a value may do: handed a null handle
\* it yields some value or ends the process.
Yields(handleOk) == IF handleOk THEN {"ok"} ELSE {"ok", "crash"}

\* ----------------------------------------------------------------- cleanup
\* cleanup() as it would be if it freed the model before the context
cleanupReleased_model_first ==
    (IF sampler THEN <<"sampler">> ELSE <<>>)
    \o (IF model THEN <<"model">> ELSE <<>>)
    \o (IF lctx THEN <<"lctx">> ELSE <<>>)
    \o (IF ctx_vision THEN <<"ctx_vision">> ELSE <<>>)

\* The resources cleanup() hands back to the backend, in order.
cleanupReleased ==
    (IF sampler THEN <<"sampler">> ELSE <<>>)
    \o (IF lctx THEN <<"lctx">> ELSE <<>>)
    \o (IF model THEN <<"model">> ELSE <<>>)
    \o (IF ctx_vision THEN <<"ctx_vision">> ELSE <<>>)

\* cleanup() as it would be if it forgot the dependents of the model
cleanup_keeps_dependents ==
    [sampler |-> sampler, lctx |-> lctx, model |-> FALSE, ctx_vision |-> ctx_vision,
     vocab |-> FALSE, n_past |-> 0, bitmaps |-> <<>>,
     batch |-> batch, tmpls |-> tmpls, antiprompt_tokens |-> antiprompt_tokens]

\* The fields after cleanup(): batch, tmpls and antiprompt_tokens are not
\* touched by it.
cleanup ==
    [sampler |-> FALSE, lctx |-> FALSE, model |-> FALSE, ctx_vision |-> FALSE,
     vocab |-> FALSE, n_past |-> 0, bitmaps |-> <<>>,
     batch |-> batch, tmpls |-> tmpls, antiprompt_tokens |-> antiprompt_tokens]

\* cleanup(), also reached through destroy_model_manager
Cleanup ==
    /\ pc = "idle"
    /\ \E via \in {"cleanup", "destroy_model_manager"} :
         ret' = Ret(via, TRUE, "none")
    /\ sampler' = cleanup.sampler /\ lctx' = cleanup.lctx
    /\ model' = cleanup.model /\ ctx_vision' = cleanup.ctx_vision
    /\ vocab' = cleanup.vocab /\ n_past' = cleanup.n_past
    /\ bitmaps' = cleanup.bitmaps /\ batch' = cleanup.batch
    /\ tmpls' = cleanup.tmpls /\ antiprompt_tokens' = cleanup.antiprompt_tokens
    /\ released' = cleanupReleased
    /\ committed' = 0
    /\ retval' = Void /\ UNCHANGED nullCall
    /\ pc' = pc /\ NoCall

\* loadLanguageModel(model_path): loaded says whether the backend could load
\* the file
LoadLanguageModel ==
    /\ pc = "idle"
    /\ \E loaded \in BOOLEAN :
         /\ model' = loaded
         /\ vocab' = loaded
         /\ ret' = Ret("loadLanguageModel", loaded, "none")
         /\ retval' = Bool(loaded)
    /\ sampler' = cleanup.sampler /\ lctx' = cleanup.lctx
    /\ ctx_vision' = cleanup.ctx_vision /\ n_past' = cleanup.n_past
    /\ bitmaps' = cleanup.bitmaps /\ batch' = cleanup.batch
    /\ tmpls' = cleanup.tmpls /\ antiprompt_tokens' = cleanup.antiprompt_tokens
    /\ released' = cleanupReleased
    /\ committed' = 0
    /\ UNCHANGED nullCall
    /\ pc' = pc /\ NoCall

\* loadVisionModel(mmproj_path): mtmd_init_from_file is handed model, null or
\* not; the previous ctx_vision is overwritten
LoadVisionModel ==
    /\ pc = "idle"
    /\ \E out \in Reports(model) :
         IF out = "crash" THEN Crash
         ELSE /\ ctx_vision' = (out = "ok")
              /\ ret' = Ret("loadVisionModel", out = "ok", "none")
              /\ retval' = Bool(out = "ok")
              /\ nullCall' = (nullCall \/ ~model)
              /\ released' = <<>>
              /\ pc' = pc /\ NoCall
              /\ UNCHANGED <<model, vocab, lctx, batch, sampler,
                             tmpls, antiprompt_tokens, n_past, bitmaps, committed>>

\* initializeContext(): llama_new_context_with_model is handed model, null
\* or not; n_past is left as it is, and lctx points to a new context, which
\* holds no position, or to none
InitializeContext ==
    /\ pc = "idle"
    /\ \E out \in Reports(model) :
         IF out = "crash" THEN Crash
         ELSE /\ lctx' = (out = "ok")
              /\ committed' = 0
              /\ ret' = Ret("initializeContext", out = "ok", "none")
              /\ retval' = Bool(out = "ok")
              /\ nullCall' = (nullCall \/ ~model)
              /\ released' = <<>>
              /\ pc' = pc /\ NoCall
              /\ UNCHANGED <<model, vocab, ctx_vision, batch, sampler,
                             tmpls, antiprompt_tokens, n_past, bitmaps>>

\* initializeBatch(): llama_batch_init needs no handle and always returns true
InitializeBatch ==
    /\ pc = "idle"
    /\ batch' = TRUE
    /\ ret' = Ret("initializeBatch", TRUE, "none")
    /\ retval' = Bool(TRUE)
    /\ UNCHANGED nullCall
    /\ released' = <<>>
    /\ pc' = pc /\ NoCall
    /\ UNCHANGED <<model, vocab, ctx_vision, lctx, sampler,
                   tmpls, antiprompt_tokens, n_past, bitmaps, committed>>

\* initializeSampler(): common_sampler_init is handed model, null or not
InitializeSampler ==
    /\ pc = "idle"
    /\ \E out \in Reports(model) :
         IF out = "crash" THEN Crash
         ELSE /\ sampler' = (out = "ok")
              /\ ret' = Ret("initializeSampler", out = "ok", "none")
              /\ retval' = Bool(out = "ok")
              /\ nullCall' = (nullCall \/ ~model)
              /\ released' = <<>>
              /\ pc' = pc /\ NoCall
              /\ UNCHANGED <<model, vocab, ctx_vision, lctx, batch,
                             tmpls, antiprompt_tokens, n_past, bitmaps, committed>>

\* The stop phrase a legacy template name loads; other names load none.
LegacyAntiprompt(template_name) ==
    IF template_name = "vicuna" THEN VicunaAntiprompt
    ELSE IF template_name = "deepseek" THEN DeepseekAntiprompt
    ELSE <<>>

IsLegacy(template_name) == template_name \in {"vicuna", "deepseek"}

\* antiprompt_tokens after a successful initializeChatTemplate(template_name)
\* whose common_tokenize call, if any, returned toks
antiprompt_after_init(template_name, toks) ==
    IF IsLegacy(template_name) THEN toks ELSE antiprompt_tokens

\* what initializeChatTemplate leaves alone when it returns
ChatTemplateFrame ==
    /\ released' = <<>>
    /\ pc' = pc /\ NoCall
    /\ UNCHANGED <<model, vocab, ctx_vision, lctx, batch, sampler,
                   n_past, bitmaps, committed>>

\* initializeChatTemplate(template_name): "nullptr" is the absent name,
\* built_in_template whether llama_model_chat_template finds a template in
\* the model
InitializeChatTemplate ==
    /\ pc = "idle"
    /\ \E template_name \in TemplateNames, built_in_template \in BOOLEAN :
         IF ~model \/ (~built_in_template /\ template_name = "nullptr")
         THEN \* returns false before tmpls is assigned
              /\ ret' = Ret("initializeChatTemplate", FALSE,
                            IF ~model THEN "no model" ELSE "no template")
              /\ retval' = Bool(FALSE)
              /\ UNCHANGED nullCall
              /\ UNCHANGED <<tmpls, antiprompt_tokens>>
              /\ ChatTemplateFrame
         ELSE \E init \in {"ok", "fail"} :
              IF init = "fail"
              THEN \* common_chat_templates_init returned null
                   /\ tmpls' = FALSE
                   /\ ret' = Ret("initializeChatTemplate", FALSE, "init failed")
                   /\ retval' = Bool(FALSE)
                   /\ UNCHANGED nullCall
                   /\ UNCHANGED antiprompt_tokens
                   /\ ChatTemplateFrame
              ELSE \* common_tokenize is handed lctx, null or not; on a null
                   \* lctx what it returns is arbitrary
                   \E out \in Yields(lctx \/ ~IsLegacy(template_name)) :
                   \E toks \in IF lctx THEN {LegacyAntiprompt(template_name)}
                               ELSE {LegacyAntiprompt(template_name), <<>>} :
                   IF out = "crash" THEN Crash
                   ELSE /\ tmpls' = TRUE
                        /\ antiprompt_tokens' =
                               antiprompt_after_init(template_name, toks)
                        /\ ret' = Ret("initializeChatTemplate", TRUE, template_name)
                        /\ retval' = Bool(TRUE)
                        /\ nullCall' = (nullCall \/ (IsLegacy(template_name) /\ ~lctx))
                        /\ ChatTemplateFrame

\* processImage(image_path): the file decodes to bitmap b, or does not
ProcessImage ==
    /\ pc = "idle"
    /\ \E b \in BitmapIds, decoded \in BOOLEAN :
         /\ decoded => Len(bitmaps) < MaxStaged
         /\ bitmaps' = IF decoded THEN Append(bitmaps, b) ELSE bitmaps
         /\ ret' = Ret("processImage", decoded, "none")
         /\ retval' = Bool(decoded)
    /\ UNCHANGED nullCall /\ released' = <<>>
    /\ pc' = pc /\ NoCall
    /\ UNCHANGED <<model, vocab, ctx_vision, lctx, batch, sampler,
                   tmpls, antiprompt_tokens, n_past, committed>>

\* addBitmap(bmp)
AddBitmap ==
    /\ pc = "idle"
    /\ Len(bitmaps) < MaxStaged
    /\ \E b \in BitmapIds : bitmaps' = Append(bitmaps, b)
    /\ ret' = Ret("addBitmap", TRUE, "none") /\ retval' = Void
    /\ UNCHANGED nullCall /\ released' = <<>>
    /\ pc' = pc /\ NoCall
    /\ UNCHANGED <<model, vocab, ctx_vision, lctx, batch, sampler,
                   tmpls, antiprompt_tokens, n_past, committed>>

\* clearBitmaps()
ClearBitmaps ==
    /\ pc = "idle"
    /\ bitmaps' = <<>>
    /\ ret' = Ret("clearBitmaps", TRUE, "none") /\ retval' = Void
    /\ UNCHANGED nullCall /\ released' = <<>>
    /\ pc' = pc /\ NoCall
    /\ UNCHANGED <<model, vocab, ctx_vision, lctx, batch, sampler,
                   tmpls, antiprompt_tokens, n_past, committed>>

\* areModelsLoaded()
areModelsLoaded == model /\ ctx_vision /\ lctx

\* ------------------------------------------------------------- evalMessage
\* evalMessage(prompt, add_bos) as a function of what the backend reports:
\* tokenized says whether mtmd_tokenize returned 0, evaluated whether
\* mtmd_helper_eval_chunks returned 0, ing is new_n_past - n_past.  stage is
\* the step the call got to, submitted the bitmaps handed to mtmd_tokenize.
evalMessage(tokenizeOk, evalOk, ing) ==
    IF ~tmpls
    THEN [ok |-> FALSE, stage |-> "no chat template", bitmaps |-> bitmaps,
          n_past |-> n_past, submitted |-> <<>>]
    ELSE IF ~tokenizeOk
    THEN [ok |-> FALSE, stage |-> "tokenize failed", bitmaps |-> bitmaps,
          n_past |-> n_past, submitted |-> bitmaps]
    ELSE IF ~evalOk
    THEN [ok |-> FALSE, stage |-> "eval failed", bitmaps |-> <<>>,
          n_past |-> n_past, submitted |-> bitmaps]
    ELSE [ok |-> TRUE, stage |-> "evaluated", bitmaps |-> <<>>,
          n_past |-> n_past + ing, submitted |-> bitmaps]

\* msg.content of the message evalMessage(prompt, add_bos) formats: the
\* prompt as it was passed; without tmpls no message is made
msg_content(prompt) == IF ~tmpls THEN <<>> ELSE prompt

\* the positions in the live context after mtmd_helper_eval_chunks, which
\* decoded ing positions, or after llama_decode of one token
committed_after(decodedOk, ing) == IF decodedOk THEN committed + ing ELSE committed

\* mtmd_tokenize is handed ctx_vision, mtmd_helper_eval_chunks ctx_vision and
\* lctx, null or not
evalNullCall(tok) == tmpls /\ (~ctx_vision \/ (tok = "ok" /\ ~lctx))
evalCrashes(tok, ev) == tmpls /\ (tok = "crash" \/ (tok = "ok" /\ ev = "crash"))

\* What the backend may report to one evalMessage call: <<tok, ev, ing>>, the
\* outcome of mtmd_tokenize, of mtmd_helper_eval_chunks and the positions
\* ingested.  A step that is not reached has one value.
EvalInputs ==
    {x \in Reports(ctx_vision) \X Reports(ctx_vision /\ lctx) \X (1..MaxIngest) :
        /\ ~tmpls => x[1] = "fail"
        /\ x[1] # "ok" => x[2] = "fail"
        /\ x[2] # "ok" => x[3] = 1}

\* evalMessage called directly, with one of Prompts
EvalMessage ==
    /\ pc = "idle"
    /\ \E x \in EvalInputs :
         LET tok == x[1]  ev == x[2]  ing == x[3] IN
         /\ n_past + ing <= MaxPast
         /\ IF evalCrashes(tok, ev) THEN Crash
            ELSE LET r == evalMessage(tok = "ok", ev = "ok", ing) IN
                 /\ content' \in {msg_content(prompt) : prompt \in Prompts}
                 /\ bitmaps' = r.bitmaps /\ n_past' = r.n_past
                 /\ committed' = committed_after(r.ok, ing)
                 /\ stage' = r.stage
                 /\ ret' = Ret("evalMessage", r.ok, r.stage)
                 /\ retval' = Bool(r.ok)
                 /\ nullCall' = (nullCall \/ evalNullCall(tok))
                 /\ released' = <<>>
                 /\ pc' = pc /\ NoGen
                 /\ UNCHANGED <<model, vocab, ctx_vision, lctx, batch,
                                sampler, tmpls, antiprompt_tokens>>

\* ----------------------------------------------------------- checkAntiprompt
\* the detector as it would be if it compared the leading tokens
checkAntiprompt_prefix(generated) ==
    IF antiprompt_tokens = <<>> \/ Len(generated) < Len(antiprompt_tokens)
    THEN FALSE
    ELSE SubSeq(generated, 1, Len(antiprompt_tokens)) = antiprompt_tokens

\* the detector as it would be with an off-by-one length test
checkAntiprompt_off_by_one(generated) ==
    IF antiprompt_tokens = <<>> \/ Len(generated) <= Len(antiprompt_tokens)
    THEN FALSE
    ELSE SubSeq(generated, Len(generated) - Len(antiprompt_tokens) + 1,
                Len(generated)) = antiprompt_tokens

checkAntiprompt(generated) ==
    IF antiprompt_tokens = <<>> \/ Len(generated) < Len(antiprompt_tokens)
    THEN FALSE
    ELSE SubSeq(generated, Len(generated) - Len(antiprompt_tokens) + 1,
                Len(generated)) = antiprompt_tokens

\* ---------------------------------------------------------- generateResponse
\* the loop as it would be without its bound
loopCondition_always(k, n_predict) == TRUE

\* the loop as it would be with an off-by-one bound
loopCondition_inclusive(k, n_predict) == k <= n_predict

\* for (int i = 0; i < n_predict; i++)
loopCondition(k, n_predict) == k < n_predict

\* the last-iteration check as it would be if it let the final token through
lastIteration_late(k, n_predict) == k >= n_predict

\* if (i >= n_predict - 1) break;
lastIteration(k, n_predict) == k >= n_predict - 1

\* What the caller gets back.  "stream" is the overload with a callback,
\* "whole" the overload returning the text, "wrapper" generate_response,
\* which copies that text into a malloc'ed buffer.
generateReturns(a, ok, cbs, mallocOk) ==
    IF a = "stream" THEN Bool(ok)
    ELSE IF a = "whole" THEN Text(Concat(cbs))
    ELSE IF mallocOk THEN Text(Concat(cbs)) ELSE Nullptr

\* a failure that is recorded while the loop goes on
Return_keeps_running(a, ok, why, cbs) ==
    /\ pc' = (IF ok THEN "idle" ELSE "sample")
    /\ ret' = Ret("generateResponse", ok, why)
    /\ \E mallocOk \in (IF a = "wrapper" THEN BOOLEAN ELSE {TRUE}) :
         retval' = generateReturns(a, ok, cbs, mallocOk)

\* generateResponse returns ok to its caller
Return(a, ok, why, cbs) ==
    /\ pc' = "idle"
    /\ ret' = Ret("generateResponse", ok, why)
    /\ \E mallocOk \in (IF a = "wrapper" THEN BOOLEAN ELSE {TRUE}) :
         retval' = generateReturns(a, ok, cbs, mallocOk)

\* str_prompt after: if (str_prompt.find("<__image__>") == npos)
\*                       str_prompt = " <__image__> " + str_prompt;
injectMarker(str_prompt) ==
    IF \E k \in 1..Len(str_prompt) : str_prompt[k] = ImageMarker
    THEN str_prompt
    ELSE <<" ", ImageMarker, " ">> \o str_prompt

\* generateResponse up to the loop: the prompt, which is one of Prompts, is
\* given its placeholder and evaluated
GenerateResponse ==
    /\ pc = "idle"
    /\ \E a \in {"stream", "whole", "wrapper"}, n \in MaxTokensArgs,
          x \in EvalInputs :
         LET tok == x[1]  ev == x[2]  ing == x[3] IN
         /\ n_past + ing + (IF n > 1 THEN n - 1 ELSE 0) <= MaxPast
         /\ IF evalCrashes(tok, ev) THEN Crash
            ELSE LET r == evalMessage(tok = "ok", ev = "ok", ing) IN
                 /\ content' \in {msg_content(injectMarker(prompt)) :
                                    prompt \in Prompts}
                 /\ bitmaps' = r.bitmaps /\ n_past' = r.n_past
                 /\ committed' = committed_after(r.ok, ing)
                 /\ stage' = r.stage
                 /\ api' = a /\ max_tokens' = n /\ i' = 0
                 /\ generated_tokens' = <<>> /\ callbacks' = <<>>
                 /\ accepted' = <<>>
                 /\ entry_n_past' = n_past /\ ingested' = (IF r.ok THEN ing ELSE 0)
                 /\ decodes' = 0
                 /\ nullCall' = (nullCall \/ evalNullCall(tok))
                 /\ released' = <<>>
                 /\ IF ~r.ok THEN Return(a, FALSE, "eval failed", <<>>)
                    ELSE IF loopCondition(0, n)
                    THEN /\ pc' = "sample"
                         /\ ret' = Ret("generateResponse", TRUE, "running")
                         /\ retval' = Void
                    ELSE Return(a, TRUE, "max_tokens", <<>>)
                 /\ UNCHANGED <<model, vocab, ctx_vision, lctx, batch,
                                sampler, tmpls, antiprompt_tokens>>

\* the callback as it would be if empty fragments were passed on too
invokeCallback_always(cbs, token_text) == Append(cbs, token_text)

\* if (!token_text.empty()) callback(token_text);
invokeCallback(cbs, token_text) ==
    IF token_text # <<>> THEN Append(cbs, token_text) ELSE cbs

\* One iteration from common_sampler_sample to the last-iteration check.
\* The sampler is handed sampler and lctx, the vocabulary test vocab, the
\* detokenizer lctx, null or not.
GenSample ==
    /\ pc = "sample"
    /\ \E out \in Yields(sampler /\ lctx /\ vocab), token_id \in Tokens :
         IF out = "crash" THEN Crash
         ELSE LET generated == Append(generated_tokens, token_id)
                  token_text == common_token_to_piece(token_id)
                  emitted == invokeCallback(callbacks, token_text)
              IN
              /\ generated_tokens' = generated
              /\ accepted' = Append(accepted, token_id)
              /\ nullCall' = (nullCall \/ ~(sampler /\ lctx /\ vocab))
              /\ IF llama_vocab_is_eog(token_id)
                 THEN /\ Return(api, TRUE, "eog", callbacks)
                      /\ UNCHANGED callbacks
                 ELSE IF checkAntiprompt(generated)
                 THEN /\ Return(api, TRUE, "antiprompt", callbacks)
                      /\ UNCHANGED callbacks
                 ELSE /\ callbacks' = emitted
                      /\ IF lastIteration(i, max_tokens)
                         THEN Return(api, TRUE, "max_tokens", emitted)
                         ELSE pc' = "feed" /\ UNCHANGED <<ret, retval>>
              /\ UNCHANGED <<sessionVars, api, max_tokens, i, entry_n_past,
                             ingested, decodes, stage, content, released>>

\* n_past after common_batch_add(batch, token_id, n_past++, {0}, true) and
\* llama_decode, which reported decodeOk
n_past_after_feed(decodeOk) == n_past + 1

\* The sampled token is fed back: common_batch_add writes into batch,
\* llama_decode is handed lctx; batch may never have been initialized.
GenFeed ==
    /\ pc = "feed"
    /\ \E out \in Reports(lctx) \cup (IF batch THEN {} ELSE {"ok", "crash"}) :
         IF out = "crash" THEN Crash
         ELSE /\ n_past' = n_past_after_feed(out = "ok")
              /\ committed' = committed_after(out = "ok", 1)
              /\ decodes' = decodes + 1
              /\ nullCall' = (nullCall \/ ~(batch /\ lctx))
              /\ IF out = "fail"
                 THEN /\ Return(api, FALSE, "decode failed", callbacks)
                      /\ UNCHANGED i
                 ELSE /\ i' = i + 1
                      /\ IF loopCondition(i + 1, max_tokens)
                         THEN pc' = "sample" /\ UNCHANGED <<ret, retval>>
                         ELSE Return(api, TRUE, "max_tokens", callbacks)
              /\ UNCHANGED <<model, vocab, ctx_vision, lctx, batch,
                             sampler, tmpls, antiprompt_tokens, bitmaps,
                             api, max_tokens, generated_tokens, callbacks,
                             entry_n_past, ingested, stage, accepted, content,
                             released>>

Next ==
    \/ Cleanup
    \/ LoadLanguageModel
    \/ LoadVisionModel
    \/ InitializeContext
    \/ InitializeBatch
    \/ InitializeSampler
    \/ InitializeChatTemplate
    \/ ProcessImage
    \/ AddBitmap
    \/ ClearBitmaps
    \/ EvalMessage
    \/ GenerateResponse
    \/ GenSample
    \/ GenFeed

Spec == Init /\ [][Next]_vars

\* ------------------------------------------------- checkAntiprompt on its own
\* the generated sequences and the stop sequences checkAntiprompt is given
GenSeqs == UNION {[1..n -> Tokens] : n \in 0..MaxTokens}
StopSeqs == UNION {[1..n -> Tokens] : n \in 0..MaxStop}

InitAntiprompt ==
    /\ model = FALSE /\ vocab = FALSE
    /\ ctx_vision = FALSE /\ lctx = FALSE /\ batch = FALSE /\ sampler = FALSE
    /\ tmpls = FALSE /\ n_past = 0 /\ bitmaps = <<>>
    /\ antiprompt_tokens \in StopSeqs
    /\ generated_tokens \in GenSeqs
    /\ pc = "idle" /\ api = "none" /\ max_tokens = 0 /\ i = 0
    /\ callbacks = <<>>
    /\ entry_n_past = 0 /\ ingested = 0 /\ decodes = 0
    /\ stage = "none" /\ accepted = <<>> /\ content = <<>> /\ committed = 0
    /\ ret = Ret("none", TRUE, "none") /\ retval = Void
    /\ nullCall = FALSE /\ released = <<>>

\* checkAntiprompt(generated_tokens) is called once; it is const and its
\* argument is a const reference
CheckAntiprompt ==
    /\ ret.op = "none"
    /\ ret' = Ret("checkAntiprompt", checkAntiprompt(generated_tokens), "none")
    /\ retval' = Bool(checkAntiprompt(generated_tokens))
    /\ UNCHANGED <<sessionVars, callVars, pc, nullCall, released>>

SpecAntiprompt == InitAntiprompt /\ [][CheckAntiprompt]_vars

\* -------------------------------------------------------------- properties
returned(op) == pc = "idle" /\ ret.op = op /\ ret.why # "running"

\* C1: right after any loadLanguageModel call returns, true or false,
\* areModelsLoaded() is false; ctx_vision becomes non-null only in a
\* loadVisionModel call that succeeds and lctx only in an initializeContext
\* call that succeeds, so areModelsLoaded() turns true only after both.
C1_ReloadInvalidatesReadiness ==
    [][ /\ ret'.op = "loadLanguageModel" => ~areModelsLoaded'
        /\ (~ctx_vision /\ ctx_vision') => (ret'.op = "loadVisionModel" /\ ret'.ok)
        /\ (~lctx /\ lctx') => (ret'.op = "initializeContext" /\ ret'.ok) ]_vars

\* a model was reloaded successfully while everything was loaded
C1_Witness ==
    /\ returned("loadLanguageModel") /\ ret.ok
    /\ released = <<"sampler", "lctx", "model", "ctx_vision">>

CleanupOps == {"cleanup", "destroy_model_manager"}

\* every handle the session holds: language model, vision encoder, context,
\* sampler and chat template
AllHandlesEmpty == ~model /\ ~ctx_vision /\ ~lctx /\ ~sampler /\ ~tmpls

\* C2: cleanup() is idempotent: a cleanup() that directly follows a cleanup()
\* changes no field and releases nothing, and in the state it leaves all
\* handles are empty, n_past is zero and the staging buffer is empty (stated
\* for sessions in which the backend was given valid handles).
C2_CleanupIdempotentAllEmpty ==
    [][ (ret.op \in CleanupOps /\ ret'.op \in CleanupOps /\ ~nullCall) =>
            /\ sessionVars' = sessionVars
            /\ released' = <<>>
            /\ AllHandlesEmpty' /\ n_past' = 0 /\ bitmaps' = <<>> ]_vars

\* C3: right after any loadLanguageModel call returns, context, batch,
\* sampler, vision encoder, chat template and stop sequence are all empty,
\* and an evalMessage or generateResponse that comes next fails for want of
\* a chat template.
C3_LoadIsFullReset ==
    [][ /\ ret'.op = "loadLanguageModel" =>
               /\ ~lctx' /\ ~batch' /\ ~sampler' /\ ~ctx_vision' /\ ~tmpls'
               /\ antiprompt_tokens' = <<>>
        /\ (ret.op = "loadLanguageModel" /\ ret'.op \in {"evalMessage", "generateResponse"})
               => (~ret'.ok /\ stage' = "no chat template") ]_vars

ReachedTokenize == {"tokenize failed", "eval failed", "evaluated"}

\* C4: when evalMessage got as far as mtmd_tokenize, the staging buffer is
\* empty once it has returned, whether tokenization succeeded or failed
\* (stated for calls in which the backend was given valid handles).
C4_BitmapsDrainedAfterTokenize ==
    (stage \in ReachedTokenize /\ ~nullCall) => bitmaps = <<>>

\* C5: when a feed-back decode fails, generateResponse returns failure with
\* n_past at its value after the last successful decode: the decode that
\* failed is not counted (stated for calls in which the backend was given
\* valid handles and an initialized batch).
C5_FailedDecodeDoesNotAdvance ==
    (returned("generateResponse") /\ ret.why = "decode failed" /\ ~nullCall) =>
        /\ ~ret.ok
        /\ n_past = entry_n_past + ingested + (decodes - 1)

\* C6: a generation call that failed (evalMessage or a feed-back decode
\* failed) hands its caller a failure value in every API: false from the
\* streaming overload, an error value, not a text, from the whole-response
\* overload and from generate_response.
C6_FailureIsDistinguishable ==
    (returned("generateResponse") /\ ~ret.ok) =>
        \/ (retval.kind = "bool" /\ ~retval.ok)
        \/ retval.kind = "nullptr"

\* C7: after a successful initializeChatTemplate whose name is absent or not
\* "vicuna"/"deepseek", antiprompt_tokens is empty, whatever was initialized
\* before (stated for sessions in which the backend was given valid handles).
C7_UnrecognizedNameNoStopSequence ==
    (returned("initializeChatTemplate") /\ ret.ok /\ ~IsLegacy(ret.why) /\ ~nullCall)
        => antiprompt_tokens = <<>>

FailingOps == {"loadLanguageModel", "loadVisionModel", "initializeContext",
               "initializeSampler", "initializeChatTemplate"}

\* C8: loadVisionModel, initializeContext, initializeSampler and
\* initializeChatTemplate never hand the backend a null handle (they fail
\* first when the prerequisite is missing), and when one of them or
\* loadLanguageModel returns failure, the field it manages is empty.
C8_PrerequisiteChecked ==
    [][ ret'.op \in FailingOps =>
            /\ nullCall' = nullCall
            /\ ~ret'.ok =>
                 /\ ret'.op = "loadLanguageModel" => ~model'
                 /\ ret'.op = "loadVisionModel" => ~ctx_vision'
                 /\ ret'.op = "initializeContext" => ~lctx'
                 /\ ret'.op = "initializeSampler" => ~sampler'
                 /\ ret'.op = "initializeChatTemplate" => ~tmpls' ]_vars

\* C9: a generateResponse call with max_tokens = N >= 1 that runs to the
\* token limit (evaluation succeeded, no end-of-generation token, no
\* antiprompt match, no decode failure) returns with n_past equal to its
\* value at entry plus the positions the initial turn ingested plus N - 1:
\* N - 1 tokens are fed back, the last sampled one is not.
C9_PositionAdvance ==
    (returned("generateResponse") /\ ret.why = "max_tokens" /\ max_tokens >= 1) =>
        /\ Len(generated_tokens) = max_tokens
        /\ decodes = max_tokens - 1
        /\ n_past = entry_n_past + ingested + (max_tokens - 1)

\* a call with max_tokens = 3 ran to the limit, from a position beyond 0
C9_Witness ==
    /\ returned("generateResponse") /\ ret.why = "max_tokens"
    /\ max_tokens = 3 /\ decodes = 2 /\ ingested = 2 /\ ~nullCall

\* C10: with max_tokens <= 0 generateResponse still evaluates the prompt,
\* then samples nothing, invokes no callback, feeds nothing back and returns
\* an empty result; n_past moves only by what the initial turn ingested.
C10_NoTokensRequested ==
    /\ pc \in {"sample", "feed"} => max_tokens >= 1
    /\ (returned("generateResponse") /\ max_tokens <= 0) =>
          /\ stage # "none"
          /\ ret.ok = (stage = "evaluated")
          /\ generated_tokens = <<>> /\ callbacks = <<>> /\ decodes = 0
          /\ retval.text = <<>>
          /\ n_past = entry_n_past + ingested

\* a call with max_tokens = 0 evaluated its prompt and returned
C10_Witness ==
    /\ returned("generateResponse") /\ max_tokens = 0
    /\ ret.ok /\ ingested = 2 /\ n_past > entry_n_past /\ ~nullCall

RECURSIVE NonEmptyPieces(_)
\* the non-empty text fragments of the tokens of g, in order
NonEmptyPieces(g) ==
    IF g = <<>> THEN <<>>
    ELSE (IF common_token_to_piece(Head(g)) # <<>>
          THEN <<common_token_to_piece(Head(g))>> ELSE <<>>)
         \o NonEmptyPieces(Tail(g))

\* the last Len(s) elements of g are s, element for element
SuffixMatch(g, s) ==
    /\ s # <<>>
    /\ Len(g) >= Len(s)
    /\ \A k \in 1..Len(s) : g[Len(g) - Len(s) + k] = s[k]

Front(g) == SubSeq(g, 1, Len(g) - 1)
Stops(g) == g # <<>> /\ (llama_vocab_is_eog(g[Len(g)]) \/ SuffixMatch(g, antiprompt_tokens))

\* C11: a call with max_tokens = N >= 1 whose evaluation succeeded, that
\* sampled no end-of-generation token, with no stop sequence configured and
\* no decode failure, ran exactly N sampling iterations to the token limit,
\* and the callback arguments are, in order, the non-empty fragments of the
\* N sampled tokens (the returned text is their concatenation).
C11_RunToLimitText ==
    (/\ returned("generateResponse") /\ max_tokens >= 1 /\ stage = "evaluated"
     /\ antiprompt_tokens = <<>>
     /\ \A k \in 1..Len(generated_tokens) : ~llama_vocab_is_eog(generated_tokens[k])
     /\ ret.why # "decode failed")
    => /\ ret.ok /\ ret.why = "max_tokens"
       /\ Len(generated_tokens) = max_tokens
       /\ callbacks = NonEmptyPieces(generated_tokens)
       /\ retval.kind = "text" => retval.text = Concat(NonEmptyPieces(generated_tokens))

\* three tokens were sampled, the middle one with an empty fragment
C11_Witness ==
    /\ returned("generateResponse") /\ max_tokens = 3 /\ antiprompt_tokens = <<>>
    /\ generated_tokens = <<1, 3, 2>> /\ callbacks = << <<1>>, <<2>> >>
    /\ retval.kind = "text" /\ retval.text = <<1, 2>> /\ ~nullCall

\* C12: the sampled token is appended, and handed to the sampler, before the
\* stop check (every sampled token is in both sequences); the call stops
\* with success at the first token that is an end-of-generation token or
\* completes the stop sequence, within max_tokens, without emitting that
\* token's fragment and without feeding it back, the fragments of the tokens
\* before it having been emitted; a token that is no stop does not stop it.
C12_AppendThenCheck ==
    LET g == generated_tokens IN
    /\ (returned("generateResponse") /\ ret.why \in {"eog", "antiprompt"}) =>
          /\ ret.ok /\ Stops(g) /\ Len(g) <= max_tokens
          /\ ret.why = "eog" <=> llama_vocab_is_eog(g[Len(g)])
          /\ callbacks = NonEmptyPieces(Front(g))
          /\ decodes = Len(g) - 1
    /\ ret.op = "generateResponse" =>
          /\ accepted = g
          /\ \A k \in 1..(Len(g) - 1) : ~Stops(SubSeq(g, 1, k))
    /\ (pc = "feed" \/ (returned("generateResponse")
                         /\ ret.why \in {"decode failed", "max_tokens"})) =>
          ~Stops(g)

\* with template "vicuna" the call stopped on the stop phrase before the
\* token limit; the fragment of its first token had been emitted
C12_Witness ==
    /\ returned("generateResponse") /\ ret.why = "antiprompt"
    /\ antiprompt_tokens = VicunaAntiprompt /\ max_tokens = 3
    /\ generated_tokens = <<1, 2>> /\ callbacks = << <<1>> >> /\ ~nullCall

\* C13: checkAntiprompt(g) with stop sequence s is true exactly if s is not
\* empty, g is at least as long as s and the last Len(s) elements of g are
\* those of s.
C13_CheckAntipromptIsSuffixMatch ==
    ret.op = "checkAntiprompt" =>
        ret.ok = SuffixMatch(generated_tokens, antiprompt_tokens)

\* the detector matched a sequence longer than the stop sequence
C13_Witness ==
    /\ ret.op = "checkAntiprompt" /\ ret.ok
    /\ generated_tokens = <<3, 1, 2>> /\ antiprompt_tokens = <<1, 2>>

\* C14: the callback is invoked only while the call is running and has not
\* failed: the step in which a failure is raised invokes none, and none is
\* invoked after it; a call whose evaluation failed has invoked none.
C14_NoCallbackAfterFailure ==
    [][ /\ Len(callbacks') > Len(callbacks) =>
              (pc = "sample" /\ ret.why = "running" /\ ret.ok)
        /\ (ret'.op = "generateResponse" /\ ~ret'.ok) =>
              /\ pc = "idle" => callbacks' = <<>>
              /\ pc # "idle" => callbacks' = callbacks
        /\ (ret'.op = "generateResponse" /\ ret'.why = "eval failed") =>
              callbacks' = <<>> ]_vars

\* a streaming call failed in a feed-back decode after a callback
C14_Witness ==
    /\ returned("generateResponse") /\ ret.why = "decode failed" /\ api = "stream"
    /\ callbacks # <<>> /\ ~nullCall

\* the number of image placeholders in a text
CountMarkers(text) == Cardinality({k \in 1..Len(text) : text[k] = ImageMarker})

\* C15: every message evalMessage formats, called directly or by
\* generateResponse, carries exactly one image placeholder.
C15_ExactlyOneMarker ==
    (stage \in ReachedTokenize /\ ~nullCall) => CountMarkers(content) = 1

HeldBefore(r) ==
    CASE r = "sampler" -> sampler
      [] r = "lctx" -> lctx
      [] r = "model" -> model
      [] r = "ctx_vision" -> ctx_vision
      [] r = "batch" -> batch

\* C16: no step releases a resource that is not held or releases one twice;
\* a step that assigns a handle (loadVisionModel, initializeContext,
\* initializeBatch, initializeSampler) releases the resource the handle held;
\* after cleanup no model, vision encoder, context, batch or sampler is held.
C16_ReleasedExactlyOnce ==
    [][ ~nullCall' =>
          /\ \A k \in 1..Len(released') :
                /\ HeldBefore(released'[k])
                /\ \A l \in 1..Len(released') : released'[l] = released'[k] => l = k
          /\ (ctx_vision /\ ret'.op = "loadVisionModel") =>
                \E k \in 1..Len(released') : released'[k] = "ctx_vision"
          /\ (lctx /\ ret'.op = "initializeContext") =>
                \E k \in 1..Len(released') : released'[k] = "lctx"
          /\ (batch /\ ret'.op = "initializeBatch") =>
                \E k \in 1..Len(released') : released'[k] = "batch"
          /\ (sampler /\ ret'.op = "initializeSampler") =>
                \E k \in 1..Len(released') : released'[k] = "sampler"
          /\ ret'.op \in CleanupOps =>
                ~(model' \/ ctx_vision' \/ lctx' \/ batch' \/ sampler') ]_vars

\* C17: a public operation that succeeds in a state where n_past is the
\* number of positions held by the live context leaves it so (and it is so
\* in the initial state).
C17_PositionCounterTracksContext ==
    [][ (n_past = committed /\ ret'.ok /\ ~nullCall') => n_past' = committed' ]_vars

\* C18: the context, the batch and the sampler are held only if the language
\* model is.
C18_DependentsNeedModel ==
    ~nullCall => ((lctx \/ batch \/ sampler) => model)

Max0(n) == IF n > 0 THEN n ELSE 0

\* what is left of the loop: two steps for every iteration to come, less one
\* once the token of this iteration is sampled
Remaining == 2 * (max_tokens - i) - (IF pc = "feed" THEN 1 ELSE 0)

\* C19: a generateResponse call samples at most max(max_tokens, 0) tokens and
\* decodes at most max(max_tokens - 1, 0) of them; while it runs it can
\* always take a step, and every step ends it or brings it nearer to its
\* token limit; it returns for a failed evaluation, an end-of-generation
\* token, the stop sequence, the token limit or a failed decode, and for
\* nothing else.
C19_GenerateTerminates ==
    /\ [](pc \in {"sample", "feed"} => ENABLED (GenSample \/ GenFeed))
    /\ [][ /\ ret'.op = "generateResponse" =>
                 /\ Len(generated_tokens') <= Max0(max_tokens')
                 /\ decodes' <= Max0(max_tokens' - 1)
                 /\ pc' = "idle" =>
                       /\ ret'.why \in {"eval failed", "eog", "antiprompt",
                                        "max_tokens", "decode failed"}
                       /\ ret'.why = "eval failed" <=> stage' # "evaluated"
                       /\ ret'.why = "max_tokens" =>
                             Len(generated_tokens') = Max0(max_tokens')
                       /\ ret'.why = "decode failed" => decodes' >= 1
           /\ pc \in {"sample", "feed"} =>
                 \/ pc' \in {"idle", "crashed"}
                 \/ pc' \in {"sample", "feed"} /\ 0 <= Remaining' /\ Remaining' < Remaining
       ]_vars

\* a call ran to its token limit with a stop sequence configured
C19_Witness ==
    /\ returned("generateResponse") /\ ret.why = "max_tokens" /\ max_tokens = 3
    /\ Len(generated_tokens) = 3 /\ decodes = 2
    /\ antiprompt_tokens = DeepseekAntiprompt /\ ~nullCall

\* the order cleanup() releases in
ReleaseOrder == <<"sampler", "lctx", "model", "ctx_vision">>

\* C20: cleanup, destroy_model_manager and loadLanguageModel release the held
\* ones of sampler, context, language model and vision encoder in this order,
\* skipping those not held; when they are done the position counter is zero
\* and no bitmap is staged.
C20_ReleaseOrder ==
    [][ ret'.op \in CleanupOps \cup {"loadLanguageModel"} =>
          /\ released' = SelectSeq(ReleaseOrder, HeldBefore)
          /\ n_past' = 0 /\ bitmaps' = <<>>
          /\ ~sampler' /\ ~lctx' /\ ~ctx_vision'
          /\ ret'.op \in CleanupOps => ~model' ]_vars

\* a reload released the sampler, the model and the vision encoder, in this
\* order, no context being held
C20_Witness ==
    /\ ret.op = "loadLanguageModel"
    /\ released = <<"sampler", "model", "ctx_vision">> /\ ~nullCall

====
